---- MODULE Spec2Model ----
(***************************************************************************)
(* lru11::Cache (LRUCache11.hpp): an index (cache_) from keys to nodes and *)
(* an intrusive doubly-linked recency list (keys_) of those nodes, with    *)
(* the maxSize/elasticity pruning policy.  Nodes live in a heap of         *)
(* addresses; pointers are addresses, nullptr is Null.                     *)
(***************************************************************************)
EXTENDS Integers, Sequences, FiniteSets, TLC

\* ---- bounds of the model ----
NumKeys == 3
MaxMaxSize == 2
MaxElasticity == 2
NumThreads == 2
PerThread == 2

\* nullptr
Null == 0

Keys == 1..NumKeys
\* values carry the key they are stored under, so a value handed out for the
\* wrong key shows; key 1 is written with two values, so an overwrite shows
ValsOf(k) == IF k = 1 THEN {10, 11} ELSE {10 * k}
\* one address more than there are keys: a destroyed node can stay referenced
MaxNodes == NumKeys + MaxElasticity + 3
Nodes == 1..MaxNodes
MaxSizes == 0..MaxMaxSize
Elasticities == 0..MaxElasticity
Threads == 1..NumThreads

\* What a build does when an operation touches a destroyed node: it stops
\* ("crash": a sanitizer or a hardened allocator aborts) or it carries on with
\* whatever the memory at that address holds ("stale").
UBOutcomes == {"crash", "stale"}

VARIABLES
    mem,         \* address -> [prev, next, key, value]: the bytes of kv::Node
    heap,        \* address -> "fresh" | "live" | "freed"
    head,        \* keys_.head
    tail,        \* keys_.tail
    len,         \* keys_.len
    cache_,      \* the index: a function from the present keys to addresses
    maxSize_,
    elasticity_,
    fault,       \* "none"; how the process stopped; or "undefined" once a call
                 \* has read or written a destroyed node and carried on
    last,        \* the last completed call: what it was and what it returned
    lru,         \* reference model: sequence of <<key, value>>, oldest first
    held,        \* key -> the value last inserted, for keys the cache has not dropped
    lock_,       \* owner of the std::mutex (0 = free)
    pc,          \* thread -> "idle" | "locked" | "unlocking" | "unwinding" | "reading" | "done"
    sent,        \* thread -> number of inserts it has completed
    ref          \* thread -> the reference get has returned to it and it has yet
                 \* to read: the node it points into and the value it had then

vars == <<mem, heap, head, tail, len, cache_, maxSize_, elasticity_, fault,
          last, lru, held, lock_, pc, sent, ref>>

\* no reference held
NoRef == [n |-> Null, val |-> 0]

\* ---- the machine state the C++ operates on, as one record ----
Machine == [mem |-> mem, heap |-> heap, head |-> head, tail |-> tail, len |-> len,
            cache |-> cache_, fault |-> fault, r |-> Null, ev |-> <<>>,
            seen |-> <<>>, ret |-> "void", val |-> 0, ubhit |-> FALSE]

Ok(S) == S.fault = "none"
Fault(S, f) == [S EXCEPT !.fault = f]

\* Dereferencing pointer n: nullptr stops the process; a destroyed node stops
\* it or is read and written as the bytes it left behind (ubhit records it).
Check(S, n, ub) ==
    IF ~Ok(S) THEN S
    ELSE IF n = Null THEN Fault(S, "null_deref")
    ELSE IF S.heap[n] = "live" THEN S
    ELSE IF ub = "crash" THEN Fault(S, "use_after_free")
    ELSE [S EXCEPT !.ubhit = TRUE]

\* the stores n->prev = v, n->next = v, n->value = v once n has been dereferenced
WritePrev(S, n, v) == IF Ok(S) THEN [S EXCEPT !.mem[n].prev = v] ELSE S
WriteNext(S, n, v) == IF Ok(S) THEN [S EXCEPT !.mem[n].next = v] ELSE S
WriteValue(S, n, v) == IF Ok(S) THEN [S EXCEPT !.mem[n].value = v] ELSE S

SetPrev(S, n, v, ub) == WritePrev(Check(S, n, ub), n, v)
SetNext(S, n, v, ub) == WriteNext(Check(S, n, ub), n, v)
SetValue(S, n, v, ub) == WriteValue(Check(S, n, ub), n, v)

\* --len and ++len on a size_t: the arithmetic wraps.  The modulus is cut down
\* from 2^64 to a value TLC's integers hold, far above any length a run reaches.
SizeMod == 65536
DecLen(S) == IF Ok(S) THEN [S EXCEPT !.len = (S.len + SizeMod - 1) % SizeMod] ELSE S
IncLen(S) == IF Ok(S) THEN [S EXCEPT !.len = (S.len + 1) % SizeMod] ELSE S

\* kv::Node::unlink, statement by statement
UnlinkNext(S, n, ub) ==
    IF ~Ok(S) THEN S
    ELSE IF S.mem[n].next # Null THEN SetPrev(S, S.mem[n].next, S.mem[n].prev, ub)
    ELSE S

UnlinkPrev(S, n, ub) ==
    IF ~Ok(S) THEN S
    ELSE IF S.mem[n].prev # Null THEN SetNext(S, S.mem[n].prev, S.mem[n].next, ub)
    ELSE S

UnlinkSelf(S, n) ==
    IF ~Ok(S) THEN S
    ELSE [S EXCEPT !.mem[n].next = Null, !.mem[n].prev = Null]

\* kv::Node::unlink
Unlink(S, n, ub) ==
    UnlinkSelf(UnlinkPrev(UnlinkNext(Check(S, n, ub), n, ub), n, ub), n)

\* kv::List::pop after the unlink: head = newHead; --len; if (len == 0) tail = nullptr
PopFinish(S, oldHead, newHead) ==
    IF ~Ok(S) THEN S
    ELSE [S EXCEPT !.head = newHead,
                   !.len = (S.len + SizeMod - 1) % SizeMod,
                   !.tail = IF (S.len + SizeMod - 1) % SizeMod = 0 THEN Null ELSE @,
                   !.r = oldHead]

\* kv::List::pop with a head: newHead = head->next; head->unlink(); ...
PopHead(S, ub) ==
    IF ~Ok(S) THEN S
    ELSE PopFinish(Unlink(S, S.head, ub), S.head, S.mem[S.head].next)

\* kv::List::pop; the popped node (or nullptr) is left in S.r
ListPop(S, ub) ==
    IF ~Ok(S) THEN S
    ELSE IF S.head = Null THEN [S EXCEPT !.r = Null]
    ELSE PopHead(Check(S, S.head, ub), ub)

\* kv::List::remove: if (n == head) head = head->next
RemoveHead(S, n) ==
    IF Ok(S) /\ n = S.head THEN [S EXCEPT !.head = S.mem[n].next] ELSE S

\* kv::List::remove: if (n == tail) tail = tail->prev
RemoveTail(S, n) ==
    IF Ok(S) /\ n = S.tail THEN [S EXCEPT !.tail = S.mem[n].prev] ELSE S

\* kv::List::remove
ListRemove(S, n, ub) ==
    IF ~Ok(S) THEN S
    ELSE IF n = Null THEN S
    ELSE DecLen(Unlink(RemoveTail(RemoveHead(Check(S, n, ub), n), n), n, ub))

\* kv::List::push after n->unlink(): the three branches on head
PushLink(S, n, ub) ==
    IF ~Ok(S) THEN S
    ELSE IF S.head = Null THEN [S EXCEPT !.head = n]
    ELSE IF S.head = S.tail THEN SetNext(S, S.head, n, ub)
    ELSE SetPrev(SetNext(S, S.tail, n, ub), n, S.tail, ub)

\* kv::List::push: tail = n; ++len
PushTail(S, n) ==
    IF ~Ok(S) THEN S ELSE IncLen([S EXCEPT !.tail = n])

\* kv::List::push
ListPush(S, n, ub) ==
    IF ~Ok(S) THEN S
    ELSE IF n = Null THEN S
    ELSE PushTail(PushLink(Unlink(S, n, ub), n, ub), n)

\* the end of ~Node(): next and prev are nulled and the storage is released;
\* gone tells that the storage had been released before
Release(S, n, gone) ==
    IF ~Ok(S) THEN S
    ELSE [S EXCEPT !.mem[n].next = Null, !.mem[n].prev = Null,
                   !.heap[n] = "freed",
                   !.ubhit = @ \/ gone]

\* delete n: ~Node() runs cleanup(), which deletes next first (the cascade),
\* then the storage of n is released.  depth counts the nested destructors.
RECURSIVE Delete(_, _, _, _)
Delete(S, n, ub, depth) ==
    IF ~Ok(S) THEN S
    ELSE IF n = Null THEN S
    ELSE IF depth > MaxNodes THEN Fault(S, "stack_overflow")
    ELSE IF S.heap[n] # "live" /\ ub = "crash" THEN Fault(S, "double_free")
    ELSE Release(Delete(S, S.mem[n].next, ub, depth + 1), n, S.heap[n] # "live")

\* kv::List::clear after delete head: head = tail = nullptr; len = 0
ClearFields(S) ==
    IF ~Ok(S) THEN S ELSE [S EXCEPT !.head = Null, !.tail = Null, !.len = 0]

\* kv::List::clear
ListClear(S, ub) == ClearFields(Delete(S, S.head, ub, 0))

\* Map: default-constructed, erase(k), size()
EmptyMap == [x \in {} |-> Null]
Erase(c, k) == [x \in DOMAIN c \ {k} |-> c[x]]
MapSize(c) == Cardinality(DOMAIN c)

\* the guard of prune with <= for <: the cache fills up to maxSize + elasticity
\* and is pruned by the insert after that
PruneSkips_Leq(S) ==
    maxSize_ = 0 \/ MapSize(S.cache) <= maxSize_ + elasticity_

\* the guard of prune without its test for maxSize == 0
PruneSkips_Bounded(S) ==
    MapSize(S.cache) < maxSize_ + elasticity_

\* the guard of Cache::prune: nothing to do
PruneSkips(S) ==
    maxSize_ = 0 \/ MapSize(S.cache) < maxSize_ + elasticity_

\* the body of the loop after keys_.pop(): cache_.erase(n->key); delete n;
\* S.ev collects the keys it erases
PruneErase(S, ub) ==
    IF ~Ok(S) THEN S
    ELSE Delete([S EXCEPT !.cache = Erase(@, S.mem[S.r].key),
                          !.ev = IF S.mem[S.r].key \in DOMAIN S.cache
                                 THEN Append(@, S.mem[S.r].key) ELSE @],
                S.r, ub, 0)

\* the body of the loop of Cache::prune
PruneOne(S, ub) ==
    IF ~Ok(S) THEN S ELSE PruneErase(Check(S, S.r, ub), ub)

\* the loop of prune with >= for >: it evicts one entry more than it should
RECURSIVE PruneLoop_Geq(_, _, _)
PruneLoop_Geq(S, ub, fuel) ==
    IF ~Ok(S) THEN S
    ELSE IF ~(MapSize(S.cache) >= maxSize_) THEN S
    ELSE IF fuel = 0 THEN Fault(S, "diverge")
    ELSE PruneLoop_Geq(PruneOne(ListPop(S, ub), ub), ub, fuel - 1)

\* the while loop of Cache::prune
RECURSIVE PruneLoop(_, _, _)
PruneLoop(S, ub, fuel) ==
    IF ~Ok(S) THEN S
    ELSE IF ~(MapSize(S.cache) > maxSize_) THEN S
    ELSE IF fuel = 0 THEN Fault(S, "diverge")
    ELSE PruneLoop(PruneOne(ListPop(S, ub), ub), ub, fuel - 1)

\* prune that never evicts
Prune_Never(S, ub) == S

\* prune that ignores the elasticity: it evicts as soon as size() > maxSize
Prune_Eager(S, ub) ==
    IF ~Ok(S) THEN S
    ELSE IF maxSize_ = 0 THEN S
    ELSE PruneLoop(S, ub, 2 * MaxNodes + 2)

\* Cache::prune
Prune(S, ub) ==
    IF ~Ok(S) THEN S
    ELSE IF PruneSkips(S) THEN S
    ELSE PruneLoop(S, ub, 2 * MaxNodes + 2)

\* cache_[k] = new node_type(k, v), the node at address a
NewNode(S, a, k, v) ==
    [S EXCEPT !.mem[a] = [prev |-> Null, next |-> Null, key |-> k, value |-> v],
              !.heap[a] = "live",
              !.cache = (k :> a) @@ @]

\* the refresh shared by insert, tryGet and get: keys_.remove(n); keys_.push(n)
Refresh(S, n, ub) == ListPush(ListRemove(S, n, ub), n, ub)

\* Cache::insert
CacheInsert(S, k, v, a, ub) ==
    IF k \in DOMAIN S.cache
    THEN Refresh(SetValue(S, S.cache[k], v, ub), S.cache[k], ub)
    ELSE Prune(ListPush(NewNode(S, a, k, v), a, ub), ub)

\* the hit of tryGet and get: the value of node n goes to the caller
Found(S, n, ret) ==
    IF ~Ok(S) THEN S
    ELSE [S EXCEPT !.ret = ret, !.val = S.mem[n].value, !.r = n]

\* Cache::tryGet
CacheTryGet(S, k, ub) ==
    IF k \notin DOMAIN S.cache THEN [S EXCEPT !.ret = "false"]
    ELSE Found(Check(Refresh(S, S.cache[k], ub), S.cache[k], ub), S.cache[k], "true")

\* get that hands out a default value for an absent key instead of throwing
CacheGet_NoThrow(S, k, ub) ==
    IF k \notin DOMAIN S.cache THEN [S EXCEPT !.ret = "value"]
    ELSE Found(Check(Refresh(S, S.cache[k], ub), S.cache[k], ub), S.cache[k], "value")

\* Cache::get
CacheGet(S, k, ub) ==
    IF k \notin DOMAIN S.cache THEN [S EXCEPT !.ret = "KeyNotFound"]
    ELSE Found(Check(Refresh(S, S.cache[k], ub), S.cache[k], ub), S.cache[k], "value")

\* the hit of remove: cache_.erase(iter); return true
Erased(S, k) ==
    IF ~Ok(S) THEN S ELSE [S EXCEPT !.cache = Erase(@, k), !.ret = "true"]

\* remove that drops the least-recently-used entry when the key is absent
CacheRemove_PopsOnMiss(S, k, ub) ==
    IF k \notin DOMAIN S.cache
    THEN IF S.head = Null THEN [S EXCEPT !.ret = "false"]
         ELSE [PruneOne(ListPop(S, ub), ub) EXCEPT !.ret = "false"]
    ELSE Erased(Delete(ListRemove(S, S.cache[k], ub), S.cache[k], ub, 0), k)

\* Cache::remove
CacheRemove(S, k, ub) ==
    IF k \notin DOMAIN S.cache THEN [S EXCEPT !.ret = "false"]
    ELSE Erased(Delete(ListRemove(S, S.cache[k], ub), S.cache[k], ub, 0), k)

\* contains that refreshes the key it finds, as tryGet does
CacheContains_Refreshes(S, k) ==
    IF k \notin DOMAIN S.cache THEN [S EXCEPT !.ret = "false"]
    ELSE [Refresh(S, S.cache[k], "stale") EXCEPT !.ret = "true"]

\* Cache::contains
CacheContains(S, k) ==
    [S EXCEPT !.ret = IF k \in DOMAIN S.cache THEN "true" ELSE "false"]

\* the visitor f(*this) of a walk is handed node n; S.seen collects what it is shown
Visited(S, n) ==
    [S EXCEPT !.seen = Append(@, <<S.mem[n].key, S.mem[n].value>>)]

\* kv::Node::cwalk on node n, already dereferenced: f(*this), then the same on
\* next if there is one.  depth counts the nested calls; a walk deeper than
\* there are nodes is in a cycle and recurses until the stack is exhausted.
RECURSIVE NodeCWalk(_, _, _, _)
NodeCWalk(S, n, ub, depth) ==
    IF ~Ok(S) THEN S
    ELSE IF depth > MaxNodes THEN Fault(S, "stack_overflow")
    ELSE IF S.mem[n].next # Null
         THEN NodeCWalk(Check(Visited(S, n), S.mem[n].next, ub),
                        S.mem[n].next, ub, depth + 1)
    ELSE Visited(S, n)

\* Cache::cwalk
CacheCWalk(S, ub) ==
    IF S.head = Null THEN S
    ELSE NodeCWalk(Check(S, S.head, ub), S.head, ub, 0)

\* Cache::size
CacheSize(S) == [S EXCEPT !.ret = "value", !.val = MapSize(S.cache)]

\* Cache::empty
CacheEmpty(S) == [S EXCEPT !.ret = IF DOMAIN S.cache = {} THEN "true" ELSE "false"]

\* Cache::clear
CacheClear(S, ub) ==
    ListClear([S EXCEPT !.cache = EmptyMap], ub)

\* ---- the reference model: an LRU sequence of <<key, value>>, oldest first ----
SeqKeys(q) == [i \in 1..Len(q) |-> q[i][1]]
KeySet(q) == {q[i][1] : i \in 1..Len(q)}
Without(q, k) == SelectSeq(q, LAMBDA e : e[1] # k)
Drop(q, c) == SubSeq(q, c + 1, Len(q))
RefNeedsPrune(q) == maxSize_ > 0 /\ Len(q) >= maxSize_ + elasticity_
RefEvicted(q) == IF RefNeedsPrune(q) /\ Len(q) > maxSize_
                 THEN SubSeq(SeqKeys(q), 1, Len(q) - maxSize_) ELSE <<>>
RefPrune(q) == IF RefNeedsPrune(q) /\ Len(q) > maxSize_
               THEN Drop(q, Len(q) - maxSize_) ELSE q
RefInsert(q, k, v) ==
    IF k \in KeySet(q) THEN Append(Without(q, k), <<k, v>>)
    ELSE RefPrune(Append(q, <<k, v>>))
RefValue(q, k) == (CHOOSE i \in 1..Len(q) : q[i][1] = k)
RefTouch(q, k) ==
    IF k \in KeySet(q) THEN Append(Without(q, k), q[RefValue(q, k)]) ELSE q

\* keys the cache has been given and has not itself dropped, with their values
HeldAfter(h, S) == [x \in DOMAIN h \cap DOMAIN S.cache |-> h[x]]

\* ---- addresses are opaque: number the nodes the program can still reach in ----
\* ---- the order a walk from the index, head and tail finds them; storage   ----
\* ---- nothing points to any more is as good as never allocated             ----
RECURSIVE SortSet(_)
SortSet(s) ==
    IF s = {} THEN <<>>
    ELSE LET m == CHOOSE x \in s : \A y \in s : x <= y IN <<m>> \o SortSet(s \ {m})

AddNode(ord, n) ==
    IF n = Null \/ \E i \in 1..Len(ord) : ord[i] = n THEN ord ELSE Append(ord, n)

RECURSIVE AddAll(_, _)
AddAll(ord, ns) ==
    IF ns = <<>> THEN ord ELSE AddAll(AddNode(ord, Head(ns)), Tail(ns))

RECURSIVE Closure(_, _, _)
Closure(S, ord, i) ==
    IF i > Len(ord) THEN ord
    ELSE Closure(S, AddAll(ord, <<S.mem[ord[i]].prev, S.mem[ord[i]].next>>), i + 1)

Roots(S, ks) == [i \in 1..Len(ks) |-> S.cache[ks[i]]] \o <<S.head, S.tail>>

Reached(S) == Closure(S, AddAll(<<>>, Roots(S, SortSet(DOMAIN S.cache))), 1)

Renamed(ord, n) == IF n = Null THEN Null ELSE CHOOSE i \in 1..Len(ord) : ord[i] = n

Renumber(S, ord) ==
    [S EXCEPT
       !.mem = [i \in Nodes |->
                  IF i <= Len(ord)
                  THEN [prev |-> Renamed(ord, S.mem[ord[i]].prev),
                        next |-> Renamed(ord, S.mem[ord[i]].next),
                        key |-> S.mem[ord[i]].key,
                        value |-> S.mem[ord[i]].value]
                  ELSE [prev |-> Null, next |-> Null, key |-> 0, value |-> 0]],
       !.heap = [i \in Nodes |-> IF i <= Len(ord) THEN S.heap[ord[i]] ELSE "fresh"],
       !.head = Renamed(ord, S.head),
       !.tail = Renamed(ord, S.tail),
       !.cache = [k \in DOMAIN S.cache |-> Renamed(ord, S.cache[k])]]

Canon(S) == Renumber(S, Reached(S))

\* ---- addresses operator new may return ----
Fresh == {n \in Nodes : heap[n] = "fresh"}
NewAddrs ==
    {n \in Nodes : heap[n] = "freed"}
        \cup (IF Fresh = {} THEN {} ELSE {CHOOSE n \in Fresh : \A m \in Fresh : n <= m})

\* the ways a call can end: as computed with stale bytes, and, if it touched a
\* destroyed node, also stopped at that point
Outcomes(S, C) == IF S.ubhit THEN {S, C} ELSE {S}

\* the caller's record of a call: op(k), whether k was in the index when it began
\* (hit), the value the caller last stored under k (exp, 0 if none), what came back
\* (ret, val), the keys it evicted (ev), those the reference model evicts (rev)
\* and the <<key, value>> pairs cwalk handed to its visitor (seen)
NoCall == [op |-> "none", k |-> 0, hit |-> FALSE, exp |-> 0, ret |-> "void",
           val |-> 0, ev |-> <<>>, rev |-> <<>>, seen |-> <<>>]
Idle == fault = "none" /\ last.op = "none"

Call(op, k, S) ==
    [op |-> op, k |-> k,
     hit |-> k \in DOMAIN cache_,
     exp |-> IF k \in DOMAIN held THEN held[k] ELSE 0,
     ret |-> IF Ok(S) THEN S.ret ELSE "fault",
     val |-> IF Ok(S) THEN S.val ELSE 0,
     ev |-> S.ev,
     rev |-> <<>>,
     seen |-> S.seen]

\* what every operation writes back
Commit(S) ==
    \E C \in {Canon(S)} :
    /\ mem' = C.mem
    /\ heap' = C.heap
    /\ head' = C.head
    /\ tail' = C.tail
    /\ len' = C.len
    /\ cache_' = C.cache
    /\ fault' = IF Ok(C) /\ C.ubhit THEN "undefined" ELSE C.fault

\* the constructor's arguments.  A bounded cache whose maxSize + elasticity
\* exceeds the number of keys never prunes and behaves as the unbounded one.
Configs ==
    {c \in MaxSizes \X Elasticities :
        IF c[1] = 0 THEN c[2] \in {0, MaxElasticity} ELSE c[1] + c[2] <= NumKeys}

Init ==
    /\ mem = [n \in Nodes |-> [prev |-> Null, next |-> Null, key |-> 0, value |-> 0]]
    /\ heap = [n \in Nodes |-> "fresh"]
    /\ head = Null
    /\ tail = Null
    /\ len = 0
    /\ cache_ = EmptyMap
    /\ \E c \in Configs : maxSize_ = c[1] /\ elasticity_ = c[2]
    /\ fault = "none"
    /\ last = NoCall
    /\ lru = <<>>
    /\ held = EmptyMap
    /\ lock_ = 0
    /\ pc = [t \in Threads |-> "idle"]
    /\ sent = [t \in Threads |-> 0]
    /\ ref = [t \in Threads |-> NoRef]

\* ---- one caller, no lock contention (Lock = NullLock) ----
Insert ==
    /\ Idle
    /\ \E k \in Keys : \E v \in ValsOf(k) :
         \E a \in (IF k \in DOMAIN cache_ THEN {Null} ELSE NewAddrs) :
            \E S \in Outcomes(CacheInsert(Machine, k, v, a, "stale"),
                              CacheInsert(Machine, k, v, a, "crash")) :
            /\ Commit(S)
            /\ last' = [Call("insert", k, S) EXCEPT
                          !.rev = IF k \in KeySet(lru) THEN <<>>
                                  ELSE RefEvicted(Append(lru, <<k, v>>))]
            /\ lru' = RefInsert(lru, k, v)
            /\ held' = HeldAfter((k :> v) @@ held, S)
    /\ UNCHANGED <<maxSize_, elasticity_, lock_, pc, sent, ref>>

TryGet ==
    /\ Idle
    /\ \E k \in Keys :
         \E S \in Outcomes(CacheTryGet(Machine, k, "stale"), CacheTryGet(Machine, k, "crash")) :
         /\ Commit(S)
         /\ last' = Call("tryGet", k, S)
         /\ lru' = RefTouch(lru, k)
    /\ UNCHANGED <<maxSize_, elasticity_, held, lock_, pc, sent, ref>>

Get ==
    /\ Idle
    /\ \E k \in Keys :
         \E S \in Outcomes(CacheGet(Machine, k, "stale"), CacheGet(Machine, k, "crash")) :
         /\ Commit(S)
         /\ last' = Call("get", k, S)
         /\ lru' = RefTouch(lru, k)
    /\ UNCHANGED <<maxSize_, elasticity_, held, lock_, pc, sent, ref>>

Remove ==
    /\ Idle
    /\ \E k \in Keys :
         \E S \in Outcomes(CacheRemove(Machine, k, "stale"), CacheRemove(Machine, k, "crash")) :
         /\ Commit(S)
         /\ last' = Call("remove", k, S)
         /\ lru' = Without(lru, k)
         /\ held' = [x \in DOMAIN held \ {k} |-> held[x]]
    /\ UNCHANGED <<maxSize_, elasticity_, lock_, pc, sent, ref>>

Contains ==
    /\ Idle
    /\ \E k \in Keys :
         \E S \in {CacheContains(Machine, k)} :
         /\ Commit(S)
         /\ last' = Call("contains", k, S)
    /\ UNCHANGED <<maxSize_, elasticity_, lru, held, lock_, pc, sent, ref>>

Clear ==
    /\ Idle
    /\ \E S \in Outcomes(CacheClear(Machine, "stale"), CacheClear(Machine, "crash")) :
         /\ Commit(S)
         /\ last' = Call("clear", 0, S)
    /\ lru' = <<>>
    /\ held' = EmptyMap
    /\ UNCHANGED <<maxSize_, elasticity_, lock_, pc, sent, ref>>

CWalk ==
    /\ Idle
    /\ \E S \in Outcomes(CacheCWalk(Machine, "stale"), CacheCWalk(Machine, "crash")) :
         /\ Commit(S)
         /\ last' = Call("cwalk", 0, S)
    /\ UNCHANGED <<maxSize_, elasticity_, lru, held, lock_, pc, sent, ref>>

\* the caller takes the result; the cache is ready for the next call
Return ==
    /\ fault = "none"
    /\ last.op # "none"
    /\ last' = NoCall
    /\ UNCHANGED <<mem, heap, head, tail, len, cache_, maxSize_, elasticity_, fault,
                   lru, held, lock_, pc, sent, ref>>

Next == Insert \/ TryGet \/ Get \/ Remove \/ Contains \/ Clear \/ CWalk \/ Return

Spec == Init /\ [][Next]_vars

\* ---- testWithLock: threads inserting disjoint keys under a std::mutex ----
KeyOf(t, i) == (t - 1) * PerThread + i
Inserter(k) == ((k - 1) \div PerThread) + 1
TotalInserts == NumThreads * PerThread

\* the constructor's arguments the heap of the model has room for
ConfigsMT ==
    {c \in MaxSizes \X Elasticities : c[1] > 0 /\ c[1] + c[2] <= MaxNodes}

InitMT ==
    /\ mem = [n \in Nodes |-> [prev |-> Null, next |-> Null, key |-> 0, value |-> 0]]
    /\ heap = [n \in Nodes |-> "fresh"]
    /\ head = Null
    /\ tail = Null
    /\ len = 0
    /\ cache_ = EmptyMap
    /\ \E c \in ConfigsMT : maxSize_ = c[1] /\ elasticity_ = c[2]
    /\ fault = "none"
    /\ last = NoCall
    /\ lru = <<>>
    /\ held = EmptyMap
    /\ lock_ = 0
    /\ pc = [t \in Threads |-> "idle"]
    /\ sent = [t \in Threads |-> 0]
    /\ ref = [t \in Threads |-> NoRef]

\* Guard whose lock type is NullLock: lock() returns at once
Lock_Null(t) ==
    /\ fault = "none"
    /\ pc[t] = "idle"
    /\ lock_' = t
    /\ pc' = [pc EXCEPT ![t] = "locked"]
    /\ UNCHANGED <<mem, heap, head, tail, len, cache_, maxSize_, elasticity_, fault,
                   last, lru, held, sent, ref>>

\* Guard g(lock_): std::lock_guard's constructor blocks until the mutex is free
Lock(t) ==
    /\ fault = "none"
    /\ pc[t] = "idle"
    /\ lock_ = 0
    /\ lock_' = t
    /\ pc' = [pc EXCEPT ![t] = "locked"]
    /\ UNCHANGED <<mem, heap, head, tail, len, cache_, maxSize_, elasticity_, fault,
                   last, lru, held, sent, ref>>

\* the body of Cache::insert, run by the thread that holds the mutex
InsertLocked(t) ==
    /\ fault = "none"
    /\ pc[t] = "locked"
    /\ lock_ = t
    /\ \E a \in NewAddrs :
         \E S \in Outcomes(CacheInsert(Machine, KeyOf(t, sent[t] + 1), t, a, "stale"),
                           CacheInsert(Machine, KeyOf(t, sent[t] + 1), t, a, "crash")) :
            Commit(S)
    /\ pc' = [pc EXCEPT ![t] = "unlocking"]
    /\ UNCHANGED <<maxSize_, elasticity_, last, lru, held, lock_, sent, ref>>

\* ~Guard: the mutex is released when insert returns
Unlock(t) ==
    /\ fault = "none"
    /\ pc[t] = "unlocking"
    /\ lock_ = t
    /\ lock_' = 0
    /\ sent' = [sent EXCEPT ![t] = @ + 1]
    /\ pc' = [pc EXCEPT ![t] = IF sent[t] + 1 = PerThread THEN "done" ELSE "idle"]
    /\ UNCHANGED <<mem, heap, head, tail, len, cache_, maxSize_, elasticity_, fault,
                   last, lru, held, ref>>

NextMT == \E t \in Threads : Lock(t) \/ InsertLocked(t) \/ Unlock(t)

SpecMT == InitMT /\ [][NextMT]_vars

\* ---- one caller inserting into a cache of maxSize 1 with a wide elasticity ----
WideKeys == 1..(MaxElasticity + 3)

InitWide ==
    /\ mem = [n \in Nodes |-> [prev |-> Null, next |-> Null, key |-> 0, value |-> 0]]
    /\ heap = [n \in Nodes |-> "fresh"]
    /\ head = Null
    /\ tail = Null
    /\ len = 0
    /\ cache_ = EmptyMap
    /\ maxSize_ = 1
    /\ elasticity_ = MaxElasticity + 2
    /\ fault = "none"
    /\ last = NoCall
    /\ lru = <<>>
    /\ held = EmptyMap
    /\ lock_ = 0
    /\ pc = [t \in Threads |-> "idle"]
    /\ sent = [t \in Threads |-> 0]
    /\ ref = [t \in Threads |-> NoRef]

\* Cache::insert of a key of WideKeys, new or present
InsertWide ==
    /\ Idle
    /\ \E k \in WideKeys :
         \E a \in (IF k \in DOMAIN cache_ THEN {Null} ELSE NewAddrs) :
            \E S \in Outcomes(CacheInsert(Machine, k, 10 * k, a, "stale"),
                              CacheInsert(Machine, k, 10 * k, a, "crash")) :
            /\ Commit(S)
            /\ last' = [Call("insert", k, S) EXCEPT
                          !.rev = IF k \in KeySet(lru) THEN <<>>
                                  ELSE RefEvicted(Append(lru, <<k, 10 * k>>))]
            /\ lru' = RefInsert(lru, k, 10 * k)
            /\ held' = HeldAfter((k :> 10 * k) @@ held, S)
    /\ UNCHANGED <<maxSize_, elasticity_, lock_, pc, sent, ref>>

NextWide == InsertWide \/ Return

SpecWide == InitWide /\ [][NextWide]_vars

\* ---- threads sharing one cache whose lock type is std::mutex, each calling ----
\* ---- any public operation again and again                                  ----
SharedKeys == 1..(NumKeys - 1)

SharedCalls ==
    UNION {{[op |-> "insert", k |-> k, v |-> v] : v \in ValsOf(k)} : k \in SharedKeys}
        \cup {[op |-> o, k |-> k, v |-> 0] :
                 o \in {"tryGet", "get", "remove", "contains"}, k \in SharedKeys}
        \cup {[op |-> o, k |-> 0, v |-> 0] : o \in {"size", "empty", "clear", "cwalk"}}

\* the body of the public operation c, new nodes going to address a
Run(c, a, ub) ==
    CASE c.op = "insert" -> CacheInsert(Machine, c.k, c.v, a, ub)
      [] c.op = "tryGet" -> CacheTryGet(Machine, c.k, ub)
      [] c.op = "get" -> CacheGet(Machine, c.k, ub)
      [] c.op = "remove" -> CacheRemove(Machine, c.k, ub)
      [] c.op = "contains" -> CacheContains(Machine, c.k)
      [] c.op = "size" -> CacheSize(Machine)
      [] c.op = "empty" -> CacheEmpty(Machine)
      [] c.op = "clear" -> CacheClear(Machine, ub)
      [] c.op = "cwalk" -> CacheCWalk(Machine, ub)

\* what the caller is left holding: get returns a reference into the node
Handle(c, S) ==
    IF c.op = "get" /\ Ok(S) /\ S.ret = "value" THEN [n |-> S.r, val |-> S.val]
    ELSE NoRef

\* the nodes the threads hold references into count as reachable
RefSeq(R) == [i \in 1..NumThreads |-> R[i].n]

ReachedHeld(S, R) ==
    Closure(S, AddAll(AddAll(<<>>, Roots(S, SortSet(DOMAIN S.cache))), RefSeq(R)), 1)

\* what an operation writes back when threads hold the references R
CommitHeld(S, R) ==
    \E ord \in {ReachedHeld(S, R)} : \E C \in {Renumber(S, ord)} :
    /\ mem' = C.mem
    /\ heap' = C.heap
    /\ head' = C.head
    /\ tail' = C.tail
    /\ len' = C.len
    /\ cache_' = C.cache
    /\ fault' = IF Ok(C) /\ C.ubhit THEN "undefined" ELSE C.fault
    /\ ref' = [t \in Threads |-> [R[t] EXCEPT !.n = Renamed(ord, @)]]

ConfigsShared == {c \in Configs : c[2] = 0}

InitShared ==
    /\ mem = [n \in Nodes |-> [prev |-> Null, next |-> Null, key |-> 0, value |-> 0]]
    /\ heap = [n \in Nodes |-> "fresh"]
    /\ head = Null
    /\ tail = Null
    /\ len = 0
    /\ cache_ = EmptyMap
    /\ \E c \in ConfigsShared : maxSize_ = c[1] /\ elasticity_ = c[2]
    /\ fault = "none"
    /\ last = NoCall
    /\ lru = <<>>
    /\ held = EmptyMap
    /\ lock_ = 0
    /\ pc = [t \in Threads |-> "idle"]
    /\ sent = [t \in Threads |-> 0]
    /\ ref = [t \in Threads |-> NoRef]

\* the body of a public operation, run by the thread that holds the mutex; it
\* ends by a return or, for get of an absent key, by throw KeyNotFound()
CallLocked(t) ==
    /\ fault = "none"
    /\ pc[t] = "locked"
    /\ lock_ = t
    /\ \E c \in SharedCalls :
         \E a \in (IF c.op = "insert" /\ c.k \notin DOMAIN cache_ THEN NewAddrs ELSE {Null}) :
            \E S \in Outcomes(Run(c, a, "stale"), Run(c, a, "crash")) :
               /\ CommitHeld(S, [ref EXCEPT ![t] = Handle(c, S)])
               /\ pc' = [pc EXCEPT ![t] = IF Ok(S) /\ S.ret = "KeyNotFound"
                                          THEN "unwinding" ELSE "unlocking"]
    /\ UNCHANGED <<maxSize_, elasticity_, last, lru, held, lock_, sent>>

\* ~Guard on return: the mutex is released; a caller of get goes on to read
\* the reference it was given
Leave(t) ==
    /\ fault = "none"
    /\ pc[t] = "unlocking"
    /\ lock_ = t
    /\ lock_' = 0
    /\ pc' = [pc EXCEPT ![t] = IF ref[t].n # Null THEN "reading" ELSE "idle"]
    /\ UNCHANGED <<mem, heap, head, tail, len, cache_, maxSize_, elasticity_, fault,
                   last, lru, held, sent, ref>>

\* ~Guard while KeyNotFound unwinds the stack of get
Unwind(t) ==
    /\ fault = "none"
    /\ pc[t] = "unwinding"
    /\ lock_ = t
    /\ lock_' = 0
    /\ pc' = [pc EXCEPT ![t] = "idle"]
    /\ UNCHANGED <<mem, heap, head, tail, len, cache_, maxSize_, elasticity_, fault,
                   last, lru, held, sent, ref>>

\* the caller reads the const Value& that get returned, holding no lock; a
\* destroyed node stops the process or yields the bytes it left behind
ReadRef(t) ==
    /\ fault = "none"
    /\ pc[t] = "reading"
    /\ fault' \in (IF heap[ref[t].n] = "live" THEN {"none"}
                   ELSE {"use_after_free", "undefined"})
    /\ pc' = [pc EXCEPT ![t] = "idle"]
    /\ ref' = [ref EXCEPT ![t] = NoRef]
    /\ UNCHANGED <<mem, heap, head, tail, len, cache_, maxSize_, elasticity_,
                   last, lru, held, lock_, sent>>

NextShared ==
    \E t \in Threads : Lock(t) \/ CallLocked(t) \/ Leave(t) \/ Unwind(t) \/ ReadRef(t)

SpecShared == InitShared /\ [][NextShared]_vars

\* every thread that can take a step does so in the end; the mutex is granted
\* to a thread only if it stays free while the thread waits
SpecSharedLive ==
    /\ SpecShared
    /\ \A t \in Threads :
          /\ WF_vars(Lock(t))
          /\ WF_vars(CallLocked(t))
          /\ WF_vars(Leave(t))
          /\ WF_vars(Unwind(t))
          /\ WF_vars(ReadRef(t))

\* ---- views of the state the properties read ----
Size == MapSize(cache_)
Running == fault \in {"none", "undefined"}

\* the nodes Node::cwalk visits from head, cut off after more steps than there are nodes
RECURSIVE WalkFrom(_, _)
WalkFrom(n, fuel) ==
    IF n = Null \/ fuel = 0 THEN <<>> ELSE <<n>> \o WalkFrom(mem[n].next, fuel - 1)
Chain == WalkFrom(head, MaxNodes + 1)
ChainKeys == [i \in 1..Len(Chain) |-> mem[Chain[i]].key]
ChainKV == [i \in 1..Len(Chain) |-> <<mem[Chain[i]].key, mem[Chain[i]].value>>]

\* ---- properties ----

\* C1: with maxSize > 0 the cache always equals the reference LRU sequence run
\* beside it: no call stops the process, the index holds exactly the reference
\* keys, the walk from head visits them oldest first, and an insert evicts
\* exactly the keys the reference evicts, in that order.
C1_StrictRecencyOrder ==
    maxSize_ > 0 =>
        /\ fault = "none"
        /\ DOMAIN cache_ = KeySet(lru)
        /\ ChainKeys = SeqKeys(lru)
        /\ last.op = "insert" => last.ev = last.rev

\* C2: after a get or tryGet hit, or an insert of a key already present, the
\* call has returned and that key is the tail of the recency list: the last
\* node of the walk from head.
C2_RefreshMovesToTail ==
    (last.op \in {"get", "tryGet", "insert"} /\ last.hit) =>
        /\ fault = "none"
        /\ tail # Null
        /\ mem[tail].key = last.k
        /\ mem[tail].next = Null
        /\ Chain # <<>>
        /\ Chain[Len(Chain)] = tail

\* C3: with maxSize = m > 0 and elasticity = e, whenever the process is running
\* (so after every insert that completes) size() <= m + e.
C3_CapacityBound ==
    (maxSize_ > 0 /\ Running) => Size <= maxSize_ + elasticity_

\* an insert has completed under elasticity > 1, has pruned, and the cache is full
C3_Witness ==
    /\ last.op = "insert"
    /\ fault = "none"
    /\ maxSize_ > 0
    /\ elasticity_ > 1
    /\ last.ev # <<>>
    /\ Size = maxSize_

\* C4: between calls the index and the list correspond one to one: the walk
\* from head visits no node twice, visits exactly the nodes the index points to,
\* each index entry points to a live node carrying its key, and the length
\* counter equals index.size().
C4_IndexListCorrespondence ==
    fault = "none" =>
        /\ \A i, j \in 1..Len(Chain) : Chain[i] = Chain[j] => i = j
        /\ {Chain[i] : i \in 1..Len(Chain)} = {cache_[k] : k \in DOMAIN cache_}
        /\ \A k \in DOMAIN cache_ :
              heap[cache_[k]] = "live" /\ mem[cache_[k]].key = k
        /\ len = Size

\* C5: a get or tryGet of a key the caller has inserted, and the cache has not
\* since removed, evicted or cleared, returns normally with the value last
\* inserted under that key.
C5_RoundTrip ==
    (last.op \in {"get", "tryGet"} /\ last.exp # 0) =>
        /\ fault = "none"
        /\ last.ret = (IF last.op = "get" THEN "value" ELSE "true")
        /\ last.val = last.exp

\* what the cache owns: the index, the list, the nodes
CacheState == <<mem, heap, head, tail, len, cache_, fault>>

\* C6: a contains(k) step, for k present or absent, returns whether k is in the
\* index and changes nothing the cache owns (so nothing later evictions depend on).
C6_ContainsIsPure ==
    [][last'.op = "contains" =>
          /\ last'.ret = (IF last'.k \in DOMAIN cache_ THEN "true" ELSE "false")
          /\ UNCHANGED CacheState]_vars

\* contains(k) has answered true for the least-recently-used of several keys
C6_Witness ==
    /\ last.op = "contains"
    /\ last.ret = "true"
    /\ Size >= 2
    /\ head # Null
    /\ mem[head].key = last.k
    /\ tail # head

\* C7: a get(k) or tryGet(k) step on an absent key reports absence (KeyNotFound
\* from get, false from tryGet, and no stop of the process) and changes nothing
\* the cache owns.
C7_MissMutatesNothing ==
    [][(last'.op \in {"get", "tryGet"} /\ ~last'.hit) =>
          /\ last'.ret = (IF last'.op = "get" THEN "KeyNotFound" ELSE "false")
          /\ UNCHANGED CacheState]_vars

\* get has thrown KeyNotFound on a cache that holds other keys
C7_Witness ==
    /\ last.op = "get"
    /\ ~last.hit
    /\ last.ret = "KeyNotFound"
    /\ Size >= 2

\* C8: a remove(k) step on an absent key returns false and changes nothing the
\* cache owns.
C8_RemoveAbsentIsNoop ==
    [][(last'.op = "remove" /\ ~last'.hit) =>
          /\ last'.ret = "false"
          /\ UNCHANGED CacheState]_vars

\* remove(k) has returned false for a key that is not there, on a cache that
\* holds another key
C8_Witness ==
    /\ last.op = "remove"
    /\ ~last.hit
    /\ last.ret = "false"
    /\ last.k \notin KeySet(lru)
    /\ Size >= 1

\* C9: a remove(k) step on a present key returns true; afterwards k is not in
\* the index, size() is one less, and the walk from head visits the entries it
\* visited before, without k, with their values and in the same order.
C9_RemovePresent ==
    [][(last'.op = "remove" /\ last'.hit) =>
          /\ fault' = "none"
          /\ last'.ret = "true"
          /\ DOMAIN cache_' = DOMAIN cache_ \ {last'.k}
          /\ Size' = Size - 1
          /\ ChainKV' = Without(ChainKV, last'.k)]_vars

\* every thread has made all its inserts
AllDone == \A t \in Threads : pc[t] = "done"

\* each entry holds the value its inserter wrote
ValuesIntact ==
    \A k \in DOMAIN cache_ :
        /\ cache_[k] # Null
        /\ heap[cache_[k]] = "live"
        /\ mem[cache_[k]].key = k
        /\ mem[cache_[k]].value = Inserter(k)

Min(a, b) == IF a <= b THEN a ELSE b

\* C10 as stated: when all threads have finished, no fault has occurred, every
\* entry holds its inserter's value and size() == min(N*M, maxSize).
C10_FinalSizeIsMaxSize ==
    AllDone =>
        /\ fault = "none"
        /\ ValuesIntact
        /\ Size = Min(TotalInserts, maxSize_)

\* size() after t inserts of distinct keys: t below maxSize + elasticity; from
\* there on the cache is pruned to maxSize at every elasticity-th insert
SizeAfter(t) ==
    IF t < maxSize_ + elasticity_ THEN t
    ELSE IF elasticity_ = 0 THEN maxSize_
    ELSE maxSize_ + ((t - (maxSize_ + elasticity_)) % elasticity_)

\* C10 amended: when all threads have finished, no fault has occurred, every
\* entry holds its inserter's value, and size() is N*M if N*M < maxSize +
\* elasticity and otherwise maxSize + ((N*M - maxSize - elasticity) mod
\* elasticity) (maxSize when elasticity is 0): between maxSize and maxSize +
\* elasticity - 1, and min(N*M, maxSize) only when elasticity <= 1.
C10_FinalSizeWithElasticity ==
    AllDone =>
        /\ fault = "none"
        /\ ValuesIntact
        /\ Size = SizeAfter(TotalInserts)
        /\ (TotalInserts >= maxSize_ + elasticity_ /\ elasticity_ > 0) =>
              (maxSize_ <= Size /\ Size < maxSize_ + elasticity_)
        /\ elasticity_ <= 1 => Size = Min(TotalInserts, maxSize_)

\* all threads are done, the cache has pruned, and it holds more than maxSize
C10_Witness ==
    /\ AllDone
    /\ fault = "none"
    /\ TotalInserts >= maxSize_ + elasticity_
    /\ Size > maxSize_
    /\ \E k1, k2 \in DOMAIN cache_ : Inserter(k1) # Inserter(k2)

\* a new key k was added by the step: the call was insert(k), k was absent
NewKeyInsert == last'.op = "insert" /\ ~last'.hit

\* C13: with maxSize = 0, whatever the elasticity, no insert evicts anything,
\* and while the process runs the index holds exactly the keys inserted and not
\* since removed or cleared, so size() is their number.
C13_UnboundedNeverEvicts ==
    maxSize_ = 0 =>
        /\ last.ev = <<>>
        /\ Running => (DOMAIN cache_ = KeySet(lru) /\ Size = Len(lru))

\* an unbounded cache with elasticity > 0 holds every key after an insert
C13_Witness ==
    /\ maxSize_ = 0
    /\ elasticity_ > 0
    /\ last.op = "insert"
    /\ fault = "none"
    /\ Size = NumKeys

\* C15: between calls head is null iff tail is null iff len = 0; otherwise
\* head.prev and tail.next are null, the walk from head ends at tail, visits no
\* node twice, and len is the number of nodes it visits.
C15_ListShape ==
    fault = "none" =>
        /\ (head = Null) <=> (tail = Null)
        /\ (head = Null) <=> (len = 0)
        /\ head # Null =>
              /\ mem[head].prev = Null
              /\ tail # Null
              /\ mem[tail].next = Null
              /\ Chain[Len(Chain)] = tail
              /\ \A i, j \in 1..Len(Chain) : Chain[i] = Chain[j] => i = j
              /\ len = Len(Chain)

\* C16: for every node n of the walk from head, n.next.prev = n when n.next is
\* not null, n.prev.next = n when n.prev is not null, and n.prev is not null
\* unless n is head.
C16_LinksAgree ==
    fault = "none" =>
        \A i \in 1..Len(Chain) :
            /\ mem[Chain[i]].next # Null => mem[mem[Chain[i]].next].prev = Chain[i]
            /\ mem[Chain[i]].prev # Null => mem[mem[Chain[i]].prev].next = Chain[i]
            /\ Chain[i] # head => mem[Chain[i]].prev # Null

\* a pointer the cache holds is null or refers to a node that has not been destroyed
Safe(n) == n = Null \/ heap[n] = "live"

\* C19: no call stops on a null pointer, reads or writes a destroyed node or
\* destroys a node twice, and between calls head, tail, every index entry and
\* the prev and next of every live node are null or refer to live nodes.
C19_PointerSafety ==
    /\ fault = "none"
    /\ Safe(head)
    /\ Safe(tail)
    /\ \A k \in DOMAIN cache_ : Safe(cache_[k]) /\ cache_[k] # Null
    /\ \A n \in Nodes : heap[n] = "live" => (Safe(mem[n].prev) /\ Safe(mem[n].next))

\* C17: of the calls that return, only an insert of a new key evicts; get,
\* tryGet, contains and an overwriting insert leave the set of keys as it was;
\* an insert of a new key evicts nothing when maxSize = 0 or the size after
\* adding the key is below maxSize + elasticity, and otherwise evicts the
\* excess over maxSize, so that size() = maxSize when it returns.
C17_PruningTrigger ==
    [][(last'.op # "none" /\ Running') =>
          /\ last'.ev # <<>> => NewKeyInsert
          /\ (~NewKeyInsert /\ last'.op \notin {"remove", "clear"}) =>
                DOMAIN cache_' = DOMAIN cache_
          /\ NewKeyInsert =>
                IF maxSize_ = 0 \/ Size + 1 < maxSize_ + elasticity_
                THEN /\ last'.ev = <<>>
                     /\ DOMAIN cache_' = DOMAIN cache_ \cup {last'.k}
                ELSE /\ Size' = maxSize_
                     /\ Len(last'.ev) = Size + 1 - maxSize_]_vars

\* an insert of a new key has reached maxSize + elasticity, evicted two entries
\* and returned
C17_Witness ==
    /\ last.op = "insert"
    /\ ~last.hit
    /\ fault = "none"
    /\ Len(last.ev) = 2
    /\ Size = maxSize_

\* C18: an insert of a new key whose pruning loop has begun to evict returns
\* with size() <= maxSize: the loop never finds the list empty (List::pop
\* returning null, dereferenced as n->key) while the index still holds more
\* than maxSize keys.
C18_PruningNeverFails ==
    (last.op = "insert" /\ ~last.hit /\ last.ev # <<>>) =>
        (fault = "none" /\ Size <= maxSize_)

\* C12 as stated: an insert of a new key into a bounded cache that returns and
\* brings the size to at most maxSize + elasticity evicts nothing, so the cache
\* holds maxSize + elasticity entries before the next new-key insert prunes it.
C12_PrunesOnNextInsert ==
    [][(NewKeyInsert /\ maxSize_ > 0 /\ fault' = "none"
            /\ Size + 1 <= maxSize_ + elasticity_) =>
          /\ last'.ev = <<>>
          /\ Size' = Size + 1]_vars

\* the list before the step is the reference sequence: no refresh or remove
\* has disturbed it
ListIntact == ChainKeys = SeqKeys(lru) /\ DOMAIN cache_ = KeySet(lru)

\* C12 amended: an insert of a new key into a bounded cache that returns evicts
\* nothing while the size it reaches is below maxSize + elasticity; the insert
\* that brings the size to maxSize + elasticity is itself the one that prunes,
\* back to maxSize, evicting the least-recently-used entries when the list is
\* undisturbed; so with elasticity > 0 the cache never holds maxSize +
\* elasticity entries after an insert.
C12_PrunesOnReachingLimit ==
    [][(NewKeyInsert /\ maxSize_ > 0 /\ fault' = "none") =>
          /\ Size + 1 < maxSize_ + elasticity_ =>
                (last'.ev = <<>> /\ Size' = Size + 1)
          /\ Size + 1 >= maxSize_ + elasticity_ =>
                /\ Size' = maxSize_
                /\ Len(last'.ev) = Size + 1 - maxSize_
                /\ ListIntact => last'.ev = last'.rev
          /\ elasticity_ > 0 => Size' < maxSize_ + elasticity_]_vars

\* the insert that reached maxSize + elasticity, with elasticity 2, has evicted
\* the two oldest entries and returned
C12_Witness ==
    /\ last.op = "insert"
    /\ ~last.hit
    /\ fault = "none"
    /\ elasticity_ = MaxElasticity
    /\ Len(last.ev) = elasticity_
    /\ last.ev = last.rev
    /\ Size = maxSize_
    /\ ChainKeys = SeqKeys(lru)

\* C14: a cwalk step returns, has handed its visitor exactly the entries of the
\* cache, each once, with their values, least-recently-used first (the
\* reference sequence), and changes nothing the cache owns.
C14_SnapshotWalk ==
    [][last'.op = "cwalk" =>
          /\ fault' = "none"
          /\ last'.seen = lru
          /\ KeySet(last'.seen) = DOMAIN cache_
          /\ Len(last'.seen) = Size
          /\ UNCHANGED CacheState]_vars

\* C20: while a caller has yet to read the reference get returned to it, the
\* node it points into has not been destroyed and still holds the value the
\* key had when get ran.
C20_GetReadIsCovered ==
    \A t \in Threads :
        pc[t] = "reading" =>
            /\ heap[ref[t].n] = "live"
            /\ mem[ref[t].n].value = ref[t].val

\* thread t is inside a public operation: between Guard's constructor and its
\* destructor
Inside(t) == pc[t] \in {"locked", "unlocking", "unwinding"}

\* the mutex is owned by exactly the thread that is inside an operation, so at
\* most one thread is inside and the mutex is free when none is
LockInv == \A t \in Threads : Inside(t) <=> lock_ = t

\* the index and the list
IndexAndList == <<mem, heap, head, tail, len, cache_>>

\* the index and the list change only in a step of the thread that owns the
\* mutex and keeps it over that step
AccessUnderLock ==
    [][IndexAndList' # IndexAndList =>
          (lock_ # 0 /\ lock_' = lock_ /\ pc[lock_] = "locked")]_vars

\* C11 as stated: the lock discipline, and every thread that waits for the lock
\* gets it (unless the process has stopped).
C11_NoThreadWaitsForever ==
    /\ []LockInv
    /\ AccessUnderLock
    /\ \A t \in Threads : (pc[t] = "idle") ~> (pc[t] = "locked" \/ fault # "none")

\* C11 amended: at most one thread is inside an operation, the index and list
\* change only under the lock, a thread that owns the lock releases it on every
\* path (return and KeyNotFound), and whenever a thread waits some thread gets
\* the lock; each waiting thread gets it if the mutex is granted strongly
\* fairly, which std::mutex does not promise.
C11_LockDiscipline ==
    /\ []LockInv
    /\ AccessUnderLock
    /\ \A t \in Threads : (lock_ = t) ~> (lock_ # t \/ fault # "none")
    /\ \A t \in Threads : (pc[t] = "idle") ~> (lock_ # 0 \/ fault # "none")
    /\ (\A t \in Threads : SF_vars(Lock(t))) =>
          \A t \in Threads : (pc[t] = "idle") ~> (pc[t] = "locked" \/ fault # "none")

\* a thread is on get's KeyNotFound path, still owning the lock, while the
\* other waits for it
C11_Witness ==
    /\ pc[1] = "unwinding"
    /\ lock_ = 1
    /\ pc[2] = "idle"
    /\ Size >= 1
    /\ fault = "none"

====
